---- MODULE Spec2Model ----
(***************************************************************************)
(* Model of nanodesign/data/domain.py: the Domain class (construction,     *)
(* the color property, get_end_points, melting_temperature) and the        *)
(* rev_complement helper nested in melting_temperature.                    *)
(*                                                                         *)
(* Python strings are modelled as sequences of one-character strings, so   *)
(* that indexing, reversal and membership are computed, not assumed.       *)
(* Python's 0-based index k is the 1-based index k + 1 here.               *)
(***************************************************************************)
EXTENDS Integers, Sequences, FiniteSets, TLC

\* Largest number of bases given to a Domain at construction.
MaxBases == 2

\* Longest sequence handed to rev_complement in SpecRev.
MaxLen == 4

\* Python's None.
None == "None"

\* The one-letter symbols rev_complement's table has an entry for.
Alphabet == {"A", "T", "G", "C", "N", "a", "t", "g", "c", "n"}

\* Symbols of the bases of the first domain of a two-domain strand.
PairSymbols == {"A", "g", "N"}

\* All sequences over S of length at most n.
SeqsUpTo(S, n) == UNION {[1..k -> S] : k \in 0..n}

(***************************************************************************)
(* The collaborators, as far as domain.py reads them.                      *)
(***************************************************************************)

\* A point of the helix axis: the axis coordinate of base position p.
AxisPoint(p) == <<p, 0, 0>>

\* A point off the axis at base position p.
OffAxisPoint(p) == <<p, 1, 0>>

\* A DnaBase as domain.py reads it: b.seq (a string) and b.coordinates; p is
\* its position along the helix.
DnaBase(seq, p, coordinates) == [seq |-> seq, p |-> p, coordinates |-> coordinates]

\* Colours are RGB lists, named by their Python text.
Gray == "[0.5, 0.5, 0.5]"
Red == "[1.0, 0.0, 0.0]"
Blue == "[0.0, 0.0, 1.0]"
Green == "[0.0, 1.0, 0.0]"

\* The colours a strand can have, and the values written to a domain's color.
StrandColors == {Red, Blue}
DomainColors == {Green, None}

\* Identifiers written to connected_strand / connected_domain.
PartnerIds == {-1, 0, 5}

(***************************************************************************)
(* energy_model.stack_energy, energy_model.melting_temperature and         *)
(* convert_temperature_K_to_C are imported, not defined, by domain.py.     *)
(* They are uninterpreted: a call is the term naming the function and its  *)
(* arguments, so two results are equal only when function and arguments    *)
(* are. A float literal is a term without arguments.                       *)
(***************************************************************************)
Term(fn, args) == [fn |-> fn, args |-> args]

Float(lit) == Term(lit, <<>>)

\* The text of a sequence, as a term argument.
Str(seq) == Term("str", seq)

\* stack_energy returns four values; each is its own function of (seq1, seq2).
stack_energy(seq1, seq2) ==
    << Term("stack_energy[0]", <<Str(seq1), Str(seq2)>>),
       Term("stack_energy[1]", <<Str(seq1), Str(seq2)>>),
       Term("stack_energy[2]", <<Str(seq1), Str(seq2)>>),
       Term("stack_energy[3]", <<Str(seq1), Str(seq2)>>) >>

energy_model_melting_temperature(dH, dS) == Term("melting_temperature", <<dH, dS>>)

convert_temperature_K_to_C(K) == Term("convert_temperature_K_to_C", <<K>>)

(***************************************************************************)
(* rev_complement (nested in Domain.melting_temperature).                  *)
(***************************************************************************)
\* A table that folds lower case to upper case.
comp_CaseFolding ==
    [ch \in Alphabet |->
        CASE ch \in {"G", "g"} -> "C" [] ch \in {"C", "c"} -> "G"
          [] ch \in {"A", "a"} -> "T" [] ch \in {"T", "t"} -> "A"
          [] ch \in {"N", "n"} -> "N"]

comp == [ch \in Alphabet |->
            CASE ch = "G" -> "C" [] ch = "C" -> "G"
              [] ch = "A" -> "T" [] ch = "T" -> "A"
              [] ch = "g" -> "c" [] ch = "c" -> "g"
              [] ch = "a" -> "t" [] ch = "t" -> "a"
              [] ch = "N" -> "N" [] ch = "n" -> "n"]

\* The loop `for i in range(len(seq)): rev.append(comp[seq[len(seq)-i-1]])`,
\* from iteration i (0-based) with rev built so far.
RECURSIVE rev_loop(_, _, _)
rev_loop(seq, i, rev) ==
    IF i >= Len(seq) THEN rev
    ELSE rev_loop(seq, i + 1, Append(rev, comp[seq[(Len(seq) - i - 1) + 1]]))

\* Complementation without the reversal.
rev_complement_NoReverse(seq) == [i \in 1..Len(seq) |-> comp[seq[i]]]

rev_complement(seq) == rev_loop(seq, 0, <<>>)

(***************************************************************************)
(* The Domain class.                                                       *)
(***************************************************************************)

\* A join that prepends each part instead of appending it.
RECURSIVE join_Prepend(_)
join_Prepend(parts) ==
    IF parts = <<>> THEN <<>> ELSE join_Prepend(Tail(parts)) \o Head(parts)

\* "".join(parts): the concatenation of the strings of parts, in order.
RECURSIVE join(_)
join(parts) ==
    IF parts = <<>> THEN <<>> ELSE Head(parts) \o join(Tail(parts))

\* [b.seq for b in bases]
seqs_of(bases) == [i \in 1..Len(bases) |-> bases[i].seq]

\* Domain.__init__
Domain(id, helix_ref, strand_ref, bases) ==
    [ id               |-> id,
      helix            |-> helix_ref,
      strand           |-> strand_ref,
      base_list        |-> bases,
      color_           |-> None,
      sequence         |-> join(seqs_of(bases)),
      connected_strand |-> -1,
      connected_domain |-> -1 ]

\* `ch in text` for a one-character ch.
Contains(text, ch) == \E i \in 1..Len(text) : text[i] = ch

VARIABLES
    dom,      \* the Domain objects, by name
    strand,   \* the strands the domains refer to: strand[s].color
    helix,    \* the helices the domains refer to: helix[h].helix_axis_coords
    ret,      \* the latest call: operation, receiver, returned value or raised
              \* exception, and the external functions it invoked, in order
    rc        \* rev_complement applied on its own: input, result, result of result

vars == <<dom, strand, helix, ret, rc>>

\* The result of a call.
Return(op, self, value, calls) ==
    [op |-> op, self |-> self, value |-> value, raised |-> None, calls |-> calls]

Raise(op, self, exc) ==
    [op |-> op, self |-> self, value |-> None, raised |-> exc, calls |-> <<>>]

NoCall == Return("none", None, None, <<>>)

NoRev == [pc |-> "off", s |-> <<>>, out |-> <<>>, back |-> <<>>]

\* A getter that lets the strand's colour win over the domain's own.
color_StrandFirst(self) ==
    IF self.strand # None THEN strand[self.strand].color
    ELSE IF self.color_ # None THEN self.color_
    ELSE Gray

\* Domain.color (getter), evaluated on domain record self.
color(self) ==
    IF self.color_ # None THEN self.color_
    ELSE IF self.strand # None THEN strand[self.strand].color
    ELSE Gray

\* End points returned last base first.
end_points_Swapped(self) ==
    LET base1    == self.base_list[1]
        base2    == self.base_list[Len(self.base_list)]
    IN  <<base2.coordinates, base1.coordinates>>

\* Domain.get_end_points: the returned pair, for a non-empty base_list.
end_points(self) ==
    LET base_pos == helix[self.helix].helix_axis_coords
        base1    == self.base_list[1]
        base2    == self.base_list[Len(self.base_list)]
        point1   == base1.coordinates
        point2   == base2.coordinates
    IN  <<point1, point2>>

\* The computed path of melting_temperature, with the enthalpy and entropy
\* taken from positions (h, s) of stack_energy(arg1, arg2)'s result.
computed_path(arg1, arg2, h, s) ==
    LET tuple == stack_energy(arg1, arg2)
        melting_temp_K == energy_model_melting_temperature(tuple[h], tuple[s])
    IN  [value |-> convert_temperature_K_to_C(melting_temp_K),
         calls |-> <<"rev_complement", "stack_energy", "melting_temperature",
                     "convert_temperature_K_to_C">>]

\* The ambiguous-base check placed before the unpaired check.
melting_temperature_of_NFirst(self) ==
    IF Contains(self.sequence, "N") \/ Contains(self.sequence, "n")
    THEN [value |-> Float("-501.0"), calls |-> <<>>]
    ELSE IF self.connected_domain = -1
    THEN [value |-> Float("-500.0"), calls |-> <<>>]
    ELSE computed_path(self.sequence, rev_complement(self.sequence), 3, 4)

\* The ambiguous-base check looking for the upper-case "N" only.
melting_temperature_of_UpperOnly(self) ==
    IF self.connected_domain = -1
    THEN [value |-> Float("-500.0"), calls |-> <<>>]
    ELSE IF Contains(self.sequence, "N")
    THEN [value |-> Float("-501.0"), calls |-> <<>>]
    ELSE computed_path(self.sequence, rev_complement(self.sequence), 3, 4)

\* Enthalpy and entropy taken from the first two of the four results.
melting_temperature_of_FirstTwo(self) ==
    IF self.connected_domain = -1
    THEN [value |-> Float("-500.0"), calls |-> <<>>]
    ELSE IF Contains(self.sequence, "N") \/ Contains(self.sequence, "n")
    THEN [value |-> Float("-501.0"), calls |-> <<>>]
    ELSE computed_path(self.sequence, rev_complement(self.sequence), 1, 2)

\* The reverse complement computed before the ambiguous-base check.
melting_temperature_of_EagerRev(self) ==
    IF self.connected_domain = -1
    THEN [value |-> Float("-500.0"), calls |-> <<>>]
    ELSE IF Contains(self.sequence, "N") \/ Contains(self.sequence, "n")
    THEN [value |-> Float("-501.0"), calls |-> <<"rev_complement">>]
    ELSE computed_path(self.sequence, rev_complement(self.sequence), 3, 4)

\* Domain.melting_temperature: the returned value and the external functions
\* invoked, in the order Python evaluates them.
melting_temperature_of(self) ==
    IF self.connected_domain = -1
    THEN [value |-> Float("-500.0"), calls |-> <<>>]
    ELSE IF Contains(self.sequence, "N") \/ Contains(self.sequence, "n")
    THEN [value |-> Float("-501.0"), calls |-> <<>>]
    ELSE LET arg1  == self.sequence
             arg2  == rev_complement(self.sequence)
             log1  == <<"rev_complement">>
             tuple == stack_energy(arg1, arg2)
             log2  == Append(log1, "stack_energy")
             dH    == tuple[3]
             dS    == tuple[4]
             melting_temp_K == energy_model_melting_temperature(dH, dS)
             log3  == Append(log2, "melting_temperature")
             result == convert_temperature_K_to_C(melting_temp_K)
             log4  == Append(log3, "convert_temperature_K_to_C")
         IN  [value |-> result, calls |-> log4]

(***************************************************************************)
(* Operations on a constructed Domain d.                                   *)
(***************************************************************************)

\* x = d.color
ReadColor(d) ==
    /\ ret' = Return("color.get", d, color(dom[d]), <<>>)
    /\ UNCHANGED <<dom, strand, helix, rc>>

\* A color write that also recolours the owning strand.
WriteColor_Propagate(d, newval) ==
    /\ dom' = [dom EXCEPT ![d].color_ = newval]
    /\ strand' = IF dom[d].strand # None /\ newval # None
                 THEN [strand EXCEPT ![dom[d].strand].color = newval]
                 ELSE strand
    /\ ret' = Return("color.set", d, None, <<>>)
    /\ UNCHANGED <<helix, rc>>

\* d.color = newval (Domain.color setter)
WriteColor(d, newval) ==
    /\ dom' = [dom EXCEPT ![d].color_ = newval]
    /\ ret' = Return("color.set", d, None, <<>>)
    /\ UNCHANGED <<strand, helix, rc>>

\* d.get_end_points(); base_list[0] of an empty list raises IndexError.
GetEndPoints(d) ==
    /\ ret' = IF Len(dom[d].base_list) = 0
              THEN Raise("get_end_points", d, "IndexError")
              ELSE Return("get_end_points", d, end_points(dom[d]), <<>>)
    /\ UNCHANGED <<dom, strand, helix, rc>>

\* d.melting_temperature()
MeltingTemperature(d) ==
    /\ LET r == melting_temperature_of(dom[d])
       IN  ret' = Return("melting_temperature", d, r.value, r.calls)
    /\ UNCHANGED <<dom, strand, helix, rc>>

\* d.connected_strand = v, by the pairing logic outside domain.py
WriteConnectedStrand(d, v) ==
    /\ dom' = [dom EXCEPT ![d].connected_strand = v]
    /\ ret' = Return("connected_strand.set", d, None, <<>>)
    /\ UNCHANGED <<strand, helix, rc>>

\* d.connected_domain = v, by the pairing logic outside domain.py
WriteConnectedDomain(d, v) ==
    /\ dom' = [dom EXCEPT ![d].connected_domain = v]
    /\ ret' = Return("connected_domain.set", d, None, <<>>)
    /\ UNCHANGED <<strand, helix, rc>>

\* s.color = c on a strand, outside domain.py
WriteStrandColor(s, c) ==
    /\ strand' = [strand EXCEPT ![s].color = c]
    /\ ret' = Return("strand.color.set", s, None, <<>>)
    /\ UNCHANGED <<dom, helix, rc>>

(***************************************************************************)
(* Initial states: the Domains just constructed.                           *)
(***************************************************************************)
StrandIds == {"s1"}

Positions == 1..MaxBases

TheHelix == [h \in {"h1"} |-> [helix_axis_coords |-> [p \in Positions |-> AxisPoint(p)]]]

\* The coordinates a base at position p may carry: the helix axis point of p,
\* or also a point of its own when own is TRUE.
BasePoints(p, own) == IF own THEN {AxisPoint(p), OffAxisPoint(p)} ELSE {AxisPoint(p)}

\* Base lists of a contiguous run: the i-th base is at position i, its symbol
\* from S.
BaseLists(S, own) ==
    UNION { { [i \in 1..k |-> DnaBase(<<sy[i]>>, i, co[i])] :
                 sy \in [1..k -> S],
                 co \in { f \in [1..k -> UNION {BasePoints(p, own) : p \in 1..k}] :
                            \A i \in 1..k : f[i] \in BasePoints(i, own) } } :
            k \in 0..MaxBases }

\* One domain, bases of any symbol, with or without a strand.
InitSingle ==
    \E bases \in BaseLists(Alphabet, FALSE), st \in StrandIds \cup {None} :
        dom = [d \in {"d1"} |-> Domain(1, "h1", st, bases)]

\* Two domains of the same strand.
InitPair ==
    \E bases \in BaseLists(PairSymbols, FALSE) :
        dom = [d \in {"d1", "d2"} |->
                 IF d = "d1" THEN Domain(1, "h1", "s1", bases)
                 ELSE Domain(2, "h1", "s1", <<DnaBase(<<"T">>, 1, AxisPoint(1))>>)]

\* One domain whose bases carry coordinates of their own.
InitGeom ==
    \E bases \in BaseLists({"A"}, TRUE) :
        dom = [d \in {"d1"} |-> Domain(1, "h1", "s1", bases)]

Init ==
    /\ InitSingle \/ InitPair \/ InitGeom
    /\ strand = [s \in StrandIds |-> [color |-> Red]]
    /\ helix = TheHelix
    /\ ret = NoCall
    /\ rc = NoRev

Next ==
    \/ \E d \in DOMAIN dom : ReadColor(d)
    \/ \E d \in DOMAIN dom, newval \in DomainColors : WriteColor(d, newval)
    \/ \E d \in DOMAIN dom : GetEndPoints(d)
    \/ \E d \in DOMAIN dom : MeltingTemperature(d)
    \/ \E d \in DOMAIN dom, v \in PartnerIds : WriteConnectedStrand(d, v)
    \/ \E d \in DOMAIN dom, v \in PartnerIds : WriteConnectedDomain(d, v)
    \/ \E s \in StrandIds, c \in StrandColors : WriteStrandColor(s, c)

Spec == Init /\ [][Next]_vars

(***************************************************************************)
(* rev_complement on its own, on every sequence over the alphabet.         *)
(***************************************************************************)
InitRev ==
    /\ dom = <<>>
    /\ strand = [s \in StrandIds |-> [color |-> Red]]
    /\ helix = TheHelix
    /\ ret = NoCall
    /\ \E s \in SeqsUpTo(Alphabet, MaxLen) :
          rc = [pc |-> "input", s |-> s, out |-> <<>>, back |-> <<>>]

\* out = rev_complement(s)
RevOnce ==
    /\ rc.pc = "input"
    /\ rc' = [rc EXCEPT !.pc = "once", !.out = rev_complement(rc.s)]
    /\ UNCHANGED <<dom, strand, helix, ret>>

\* back = rev_complement(out)
RevTwice ==
    /\ rc.pc = "once"
    /\ rc' = [rc EXCEPT !.pc = "twice", !.back = rev_complement(rc.out)]
    /\ UNCHANGED <<dom, strand, helix, ret>>

NextRev == RevOnce \/ RevTwice

SpecRev == InitRev /\ [][NextRev]_vars

(***************************************************************************)
(* Properties.                                                             *)
(***************************************************************************)

\* The domain the latest call was made on.
Self == dom[ret.self]

Called(op) == ret.op = op /\ ret.raised = None

Ambiguous(text) == \E i \in 1..Len(text) : text[i] \in {"N", "n"}

\* C1: whenever connected_domain is -1, melting_temperature() returns exactly
\* -500.0, whatever the sequence holds (ambiguous bases included) and whatever
\* color and connected_strand writes came before.
C1_UnpairedReturnsMinus500 ==
    (Called("melting_temperature") /\ Self.connected_domain = -1)
        => ret.value = Float("-500.0")

\* An unpaired domain with an ambiguous base, an explicit color and a written
\* connected_strand has answered.
C1_Witness ==
    /\ Called("melting_temperature")
    /\ Self.connected_domain = -1
    /\ Self.connected_strand = 5
    /\ Self.color_ = Green
    /\ Self.sequence = <<"A", "n">>
    /\ ret.value = Float("-500.0")

\* C2: whenever connected_domain is any integer but -1 and the sequence holds
\* "N" or "n" at some position, melting_temperature() returns exactly -501.0.
C2_AmbiguousReturnsMinus501 ==
    (Called("melting_temperature") /\ Self.connected_domain # -1
        /\ Ambiguous(Self.sequence))
        => ret.value = Float("-501.0")

\* A domain paired with domain 0 whose second base is "n" has answered.
C2_Witness ==
    /\ Called("melting_temperature")
    /\ Self.connected_domain = 0
    /\ Self.sequence = <<"G", "n">>
    /\ ret.value = Float("-501.0")

\* The case-preserving complement table of the specification.
Complement ==
    [ch \in Alphabet |->
        CASE ch = "A" -> "T" [] ch = "T" -> "A" [] ch = "G" -> "C"
          [] ch = "C" -> "G" [] ch = "N" -> "N" [] ch = "a" -> "t"
          [] ch = "t" -> "a" [] ch = "g" -> "c" [] ch = "c" -> "g"
          [] ch = "n" -> "n"]

\* The reverse complement by position: 0-based position i of the result is the
\* complement of position len - 1 - i of the input.
ReverseComplement(s) == [j \in 1..Len(s) |-> Complement[s[Len(s) + 1 - j]]]

\* C3: for a paired domain with a sequence over {A,T,G,C,a,t,g,c},
\* melting_temperature() returns KtoC(MT(dH, dS)) where dH and dS are the third
\* and fourth results of stack_energy(sequence, reverse complement of sequence).
C3_ComputedValue ==
    (Called("melting_temperature") /\ Self.connected_domain # -1
        /\ ~Ambiguous(Self.sequence))
        => LET four == stack_energy(Self.sequence, ReverseComplement(Self.sequence))
           IN  ret.value = convert_temperature_K_to_C(
                               energy_model_melting_temperature(four[3], four[4]))

\* The paired domain "Ag" has answered with the value computed from ("Ag", "cT").
C3_Witness ==
    /\ Called("melting_temperature")
    /\ Self.connected_domain = 5
    /\ Self.sequence = <<"A", "g">>
    /\ ret.value.fn = "convert_temperature_K_to_C"
    /\ ret.value.args[1].args[1].args = <<Str(<<"A", "g">>), Str(<<"c", "T">>)>>

\* C4: rev_complement is an involution on the sequences over {A,T,G,C,N} in
\* either case: rev_complement(rev_complement(s)) = s.
C4_Involution == rc.pc = "twice" => rc.back = rc.s

\* A mixed-case sequence with an ambiguous base has been reversed twice.
C4_Witness ==
    /\ rc.pc = "twice"
    /\ rc.s = <<"a", "T", "n", "G">>
    /\ rc.out = <<"C", "n", "A", "t">>
    /\ rc.back = rc.s

\* C5: rev_complement(s) has the length of s, its position i holds the
\* complement of position len - 1 - i of s, and s itself is left as it was.
C5_ReverseComplementByPosition ==
    /\ [](rc.pc \in {"once", "twice"} => rc.out = ReverseComplement(rc.s))
    /\ [](rc.pc \in {"once", "twice"} => Len(rc.out) = Len(rc.s))
    /\ [][rc'.s = rc.s]_vars

\* "ATGC" has been turned into "GCAT".
C5_Witness ==
    /\ rc.pc = "once"
    /\ rc.s = <<"A", "T", "G", "C">>
    /\ rc.out = <<"G", "C", "A", "T">>

\* C6: a color read returns the domain's explicit color when one is set,
\* otherwise the owning strand's current color when there is a strand,
\* otherwise [0.5, 0.5, 0.5].
C6_ColorFallback ==
    Called("color.get") =>
        /\ Self.color_ # None => ret.value = Self.color_
        /\ (Self.color_ = None /\ Self.strand # None)
              => ret.value = strand[Self.strand].color
        /\ (Self.color_ = None /\ Self.strand = None) => ret.value = Gray

\* A domain without a color of its own has answered with the colour its strand
\* was given after the domain was constructed.
C6_Witness ==
    /\ Called("color.get")
    /\ Self.color_ = None
    /\ Self.strand = "s1"
    /\ strand["s1"].color = Blue
    /\ ret.value = Blue

\* The fields of a domain other than its stored color.
OtherFields(d) ==
    <<d.id, d.helix, d.strand, d.base_list, d.sequence,
      d.connected_strand, d.connected_domain>>

\* C7: a color write changes only the written domain's stored color (not the
\* strand, not what other domains resolve, not the domain's other fields), and
\* a color read changes nothing.
C7_ColorWriteFrame ==
    [][ /\ ret'.op = "color.set" =>
            /\ strand' = strand
            /\ helix' = helix
            /\ OtherFields(dom'[ret'.self]) = OtherFields(dom[ret'.self])
            /\ \A d \in DOMAIN dom \ {ret'.self} :
                  dom'[d] = dom[d] /\ color(dom[d])' = color(dom[d])
        /\ ret'.op = "color.get" => <<dom, strand, helix>>' = <<dom, strand, helix>>
      ]_vars

\* The first of two domains of a strand has been given a color of its own while
\* the second still resolves to the strand's.
C7_Witness ==
    /\ Called("color.set")
    /\ ret.self = "d1"
    /\ dom["d1"].color_ = Green
    /\ "d2" \in DOMAIN dom
    /\ dom["d2"].color_ = None
    /\ color(dom["d2"]) = strand["s1"].color

C9_SequenceMatchesBases ==
    \A d \in DOMAIN dom :
        /\ Len(dom[d].sequence) = Len(dom[d].base_list)
        /\ \A i \in 1..Len(dom[d].base_list) :
              <<dom[d].sequence[i]>> = dom[d].base_list[i].seq

\* A paired, coloured domain of two different bases has computed its melting
\* temperature.
C9_Witness ==
    /\ Called("melting_temperature")
    /\ Self.connected_domain = 5
    /\ Self.color_ = Green
    /\ Self.base_list = <<DnaBase(<<"c">>, 1, AxisPoint(1)),
                          DnaBase(<<"T">>, 2, AxisPoint(2))>>
    /\ Self.sequence = <<"c", "T">>

\* C10: a melting_temperature() call that passes both guards invokes
\* rev_complement, stack_energy, melting_temperature and the Kelvin-to-Celsius
\* conversion once each, in that order; a call that returns a sentinel invokes
\* none of them; and the call changes no field of any domain.
C10_CallOrder ==
    /\ []((Called("melting_temperature") /\ Self.connected_domain # -1
             /\ ~Ambiguous(Self.sequence))
            => ret.calls = <<"rev_complement", "stack_energy",
                             "melting_temperature", "convert_temperature_K_to_C">>)
    /\ []((Called("melting_temperature")
             /\ ret.value \in {Float("-500.0"), Float("-501.0")})
            => ret.calls = <<>>)
    /\ [][ret'.op = "melting_temperature"
            => <<dom, strand, helix>>' = <<dom, strand, helix>>]_vars

\* A paired domain with the clean sequence "tC" has taken the computed path,
\* with the four external calls in order.
C10_Witness ==
    /\ Called("melting_temperature")
    /\ Self.connected_domain = 5
    /\ Self.sequence = <<"t", "C">>
    /\ ret.value.fn = "convert_temperature_K_to_C"
    /\ ret.calls = <<"rev_complement", "stack_energy",
                     "melting_temperature", "convert_temperature_K_to_C">>

====
